---- MODULE Spec2Model ----
(***************************************************************************)
(* State-machine model of zotero_app.py: one process run after another     *)
(* against the same state file.  A run is the module-level start-up        *)
(* (identity lookup, resolve_library), the __main__ weekend check,         *)
(* digest() (fetch, partition, window filter, meaningfulness filter,       *)
(* parent resolution), print_digest(), send_to_slack() and save_state().   *)
(*                                                                         *)
(* Time is counted in seconds of local wall-clock time from a Monday       *)
(* 00:00:00, so weekday() is (t \div Day) % 7 with Monday = 0.             *)
(***************************************************************************)
EXTENDS Integers, Sequences, FiniteSets, TLC

VARIABLES
    cfg,          \* the environment configuration read at lines 9-22
    lib,          \* keys of the items that exist in the remote library
    lmv,          \* Last-Modified-Version header the server sends
    clock,        \* datetime.now(tz=LOCAL_TZ), in seconds
    ticks,        \* how often time has advanced during this run
    runs,         \* processes started so far
    pc,           \* position of the running process
    net,          \* network calls made by the running process
    disk,         \* the state file: <<>> when absent, else <<last_version>>
    loaded,       \* last_version returned by load_state() in this run
    state,        \* digest's local state["last_version"]
    window,       \* digest's (start_dt, end_dt) and effective day count
    changed,      \* the fetched item list (keys, most recently modified first)
    new_papers,   \* digest local lists, as sequences of keys
    new_notes,
    new_annots,
    all_meaningful_notes,
    all_meaningful_annotations,
    parents,      \* digest's dict parents, as its set of keys
    found,        \* children for which paper_for_child returned (no error)
    i,            \* index of the running loop
    last,         \* the most recent is_meaningful_item call and its result
    printed,      \* header written by print_digest
    slacked       \* header built by send_to_slack, and the post's outcome

vars == <<cfg, lib, lmv, clock, ticks, runs, pc, net, disk, loaded, state,
          window, changed, new_papers, new_notes, new_annots,
          all_meaningful_notes, all_meaningful_annotations, parents, found,
          i, last, printed, slacked>>

-----------------------------------------------------------------------------
(* Bounds of the model. *)

MaxLib == 3          \* items in the remote library
MaxVersion == 2      \* largest library version the server reports
MaxRuns == 2         \* process runs against one state file
MaxTicks == 1        \* advances of the clock within one run
TickSeconds == 2     \* seconds by which the clock advances at a time

(* Program constants. *)

Day == 86400                         \* datetime.timedelta(days=1), in seconds
SecondsPerMinute == 60               \* total_seconds() / 60
AUTO_ANNOTATION_THRESHOLD == 1       \* default of AUTO_ANNOTATION_THRESHOLD
MondayExtendedDays == 3              \* days = 3 on Monday
PageLimit == 100                     \* "limit": 100

Week == 7 * Day
Noon == Day \div 2
LastSecond == Day - 1

(* Tuesday 12:00:00 of the second week: the run instant the library's      *)
(* dates are laid out around.                                              *)
RefNow == Week + Day + Noon
RefStart == RefNow - Day
RefEnd == RefNow

weekday(t) == (t \div Day) % 7
DateOf(t) == t \div Day               \* strftime('%b %d, %Y'): the calendar day

DefaultBiblioTypes ==
    {"journalArticle", "conferencePaper", "preprint", "report",
     "book", "bookSection", "thesis", "manuscript", "blogPost"}

(* BIBLIO_TYPES: the default set, or the PAPER_TYPES override. *)
BiblioTypeSets == {DefaultBiblioTypes, {"journalArticle", "note"}}

-----------------------------------------------------------------------------
(* The remote library.  Catalog lists every item that may exist, most      *)
(* recently modified first; lib says which of them do exist.               *)

Mk(k, t, ok, d, p, c) ==
    [key |-> k, itemType |-> t, dateOk |-> ok, dateAdded |-> d,
     parentItem |-> p, createdByUser |-> c]

Catalog ==
    << Mk("P0",  "journalArticle", TRUE,  RefStart - 1000, "",    "dict"),
       Mk("P1",  "journalArticle", TRUE,  RefStart,        "",    "dict"),
       Mk("P2",  "report",         TRUE,  RefStart - 1,    "",    "dict"),
       Mk("P3",  "book",           TRUE,  RefEnd,          "",    "dict"),
       Mk("P4",  "preprint",       TRUE,  RefEnd + 1,      "",    "dict"),
       Mk("P5",  "thesis",         FALSE, RefStart + 50,   "",    "dict"),
       Mk("W1",  "webpage",        TRUE,  RefStart + 100,  "",    "dict"),
       Mk("AT1", "attachment",     TRUE,  RefStart + 5,    "P1",  "dict"),
       Mk("AT2", "attachment",     TRUE,  RefStart + 200,  "",    "dict"),
       Mk("N1",  "note",           TRUE,  RefStart + 90,   "P1",  "dict"),
       Mk("N2",  "note",           TRUE,  RefStart + 30,   "P1",  "scalar"),
       Mk("N3",  "note",           TRUE,  RefStart + 60,   "P1",  "dict"),
       Mk("N4",  "note",           TRUE,  RefStart + 10,   "P0",  "dict"),
       Mk("N5",  "note",           TRUE,  RefStart + 90,   "P1",  "missing"),
       Mk("N6",  "note",           TRUE,  RefStart + 300,  "",    "dict"),
       Mk("AN1", "annotation",     TRUE,  RefStart + 90,   "AT1", "dict"),
       Mk("AN2", "annotation",     TRUE,  RefStart - 500,  "P0",  "dict"),
       Mk("AN3", "annotation",     TRUE,  RefStart + 230,  "AT2", "dict"),
       Mk("AN4", "annotation",     TRUE,  RefStart + 190,  "W1",  "dict") >>

Keys == {Catalog[n].key : n \in 1..Len(Catalog)}
Item(k) == Catalog[CHOOSE n \in 1..Len(Catalog) : Catalog[n].key = k]

CatalogKeys == [n \in 1..Len(Catalog) |-> Catalog[n].key]

Min(a, b) == IF a < b THEN a ELSE b
Max(a, b) == IF a > b THEN a ELSE b

(* get_items: the PageLimit most recently modified items that exist. *)
get_items ==
    LET InLib(k) == k \in lib
        all == SelectSeq(CatalogKeys, InLib)
    IN  SubSeq(all, 1, Min(Len(all), PageLimit))

(* get_item(key): the item, or an error when the key does not exist (404)  *)
(* or the request itself fails (r = "err").                                 *)
get_item(key, r) == IF key \in lib /\ r = "ok" THEN key ELSE "error"

-----------------------------------------------------------------------------
(* The Last-Modified-Version header is text: None when absent, else a      *)
(* sequence of characters that int() parses.                               *)

DigitChars == <<"0", "1", "2", "3", "4", "5", "6", "7", "8", "9">>
IsDigit(c) == \E d \in 1..Len(DigitChars) : DigitChars[d] = c
DigitVal(c) == (CHOOSE d \in 1..Len(DigitChars) : DigitChars[d] = c) - 1

RECURSIVE StrOf(_)
StrOf(n) == IF n < Len(DigitChars) THEN <<DigitChars[n + 1]>>
            ELSE Append(StrOf(n \div Len(DigitChars)),
                        DigitChars[(n % Len(DigitChars)) + 1])

(* int(s): defined on non-empty digit strings, ValueError otherwise. *)
IntOk(s) == Len(s) > 0 /\ \A n \in 1..Len(s) : IsDigit(s[n])
RECURSIVE IntOf(_)
IntOf(s) == IF Len(s) = 0 THEN 0
            ELSE IntOf(SubSeq(s, 1, Len(s) - 1)) * Len(DigitChars)
                 + DigitVal(s[Len(s)])

Headers ==
    {[present |-> FALSE, text |-> <<>>],
     [present |-> TRUE,  text |-> <<>>],
     [present |-> TRUE,  text |-> <<"1", ".", "5">>]}
    \cup {[present |-> TRUE, text |-> StrOf(v)] : v \in 0..MaxVersion}

-----------------------------------------------------------------------------
(* Pure helpers of the program. *)

(* now_window(days) read at instant now: <<start, end>> and the day count  *)
(* used, 3 on a Monday when days = 1.                                      *)
now_window(now, days) ==
    LET eff == IF days = 1 /\ weekday(now) = 0 THEN MondayExtendedDays
               ELSE days
    IN  [start |-> now - eff * Day, end |-> now, days |-> eff]

(* load_state(): the file's last_version, 0 when there is no file. *)
load_state == IF disk = <<>> THEN 0 ELSE disk[1]

(* Variant: the header's version is stored without the max. *)
UpdatedVersion_nomax(lm, st) ==
    IF lm.present /\ Len(lm.text) > 0
    THEN IF IntOk(lm.text) THEN IntOf(lm.text) ELSE st
    ELSE st

(* Lines 207-212: state["last_version"] after the fetch. *)
UpdatedVersion(lm, st) ==
    IF lm.present /\ Len(lm.text) > 0
    THEN IF IntOk(lm.text) THEN Max(IntOf(lm.text), st) ELSE st
    ELSE st

(* Variant: the window's start is excluded. *)
in_window_open(k, w) ==
    IF ~Item(k).dateOk THEN FALSE
    ELSE w.start < Item(k).dateAdded /\ Item(k).dateAdded <= w.end

(* in_window(it): any exception of the date parse or comparison is False. *)
in_window(k, w) ==
    IF ~Item(k).dateOk THEN FALSE
    ELSE w.start <= Item(k).dateAdded /\ Item(k).dateAdded <= w.end

(* Lines 232-239: the creator id as text, "" when there is none. *)
created_by_id(k) ==
    CASE Item(k).createdByUser = "missing" -> ""
      [] Item(k).createdByUser = "dict"    -> "4711"
      [] Item(k).createdByUser = "scalar"  -> "4712"

(* Variant: the threshold itself counts as late enough. *)
is_not_auto_ge(annotation_time, paper_time) ==
    (annotation_time - paper_time) >= AUTO_ANNOTATION_THRESHOLD * SecondsPerMinute

(* Line 265: time_diff (seconds / 60) > AUTO_ANNOTATION_THRESHOLD; on      *)
(* whole seconds the same as seconds > threshold * 60.                     *)
is_not_auto(annotation_time, paper_time) ==
    (annotation_time - paper_time) > AUTO_ANNOTATION_THRESHOLD * SecondsPerMinute

(* Variant: a failed lookup excludes the item. *)
on_timing_error_closed(k) == FALSE

(* Lines 278-282: what the except branch of is_meaningful_item returns. *)
on_timing_error(k) == TRUE

(* is_meaningful_item(it), with r1 and r2 the outcomes of its first and    *)
(* second get_item call.  verdict is the return value, raised says which   *)
(* exception the try block caught, paper is the item the dates were        *)
(* compared with ("" when none was).                                       *)
is_meaningful_item(k, r1, r2) ==
    LET it == Item(k)
        none == [verdict |-> TRUE, raised |-> "none", paper |-> ""]
        err == [verdict |-> on_timing_error(k), raised |-> "lookup", paper |-> ""]
        timed(p) ==
            IF it.dateOk /\ Item(p).dateOk
            THEN [verdict |-> is_not_auto(it.dateAdded, Item(p).dateAdded),
                  raised |-> "none", paper |-> p]
            ELSE [verdict |-> on_timing_error(k), raised |-> "date", paper |-> p]
    IN  IF cfg.LIBRARY_TYPE # "groups" THEN none
        ELSE IF created_by_id(k) = ""
             THEN [verdict |-> FALSE, raised |-> "none", paper |-> ""]
        ELSE IF it.parentItem = "" THEN none
        ELSE LET parent == get_item(it.parentItem, r1)
             IN  IF parent = "error" THEN err
                 ELSE IF Item(parent).itemType = "attachment"
                      THEN IF Item(parent).parentItem # ""
                           THEN LET paper == get_item(Item(parent).parentItem, r2)
                                IN  IF paper = "error" THEN err ELSE timed(paper)
                           ELSE timed(parent)
                      ELSE timed(parent)

(* paper_for_child(child): raised when a get_item call fails, else the     *)
(* parent, the attachment's parent, or "" for None.                        *)
paper_for_child(k, r1, r2) ==
    LET it == Item(k)
        ret(p) == [raised |-> FALSE, paper |-> p]
        err == [raised |-> TRUE, paper |-> ""]
    IN  IF it.parentItem = "" THEN ret("")
        ELSE LET parent == get_item(it.parentItem, r1)
             IN  IF parent = "error" THEN err
                 ELSE IF Item(parent).itemType = "attachment"
                      THEN IF Item(parent).parentItem # ""
                           THEN LET grand == get_item(Item(parent).parentItem, r2)
                                IN  IF grand = "error" THEN err ELSE ret(grand)
                           ELSE ret("")
                      ELSE ret(parent)

(* Variant: the resolved ancestor's type is not tested. *)
add_parent_any(ps, res) ==
    IF ~res.raised /\ res.paper # "" THEN ps \cup {res.paper} ELSE ps

(* Lines 323-333: the dict parents after one child. *)
add_parent(ps, res) ==
    IF ~res.raised /\ res.paper # ""
       /\ Item(res.paper).itemType \in cfg.BIBLIO_TYPES
    THEN ps \cup {res.paper}
    ELSE ps

(* Lines 215-217: the partition of the fetched list. *)
OfType(seq, t) == LET Is(k) == Item(k).itemType = t IN SelectSeq(seq, Is)
notes == OfType(changed, "note")
annotations == OfType(changed, "annotation")
biblio(seq) == LET Is(k) == Item(k).itemType \in cfg.BIBLIO_TYPES
               IN  SelectSeq(seq, Is)

(* Line 286. *)
NewPapers(seq, w) == LET In(k) == in_window(k, w) IN SelectSeq(biblio(seq), In)

Responses == {"ok", "err"}
NoCall == [key |-> "", verdict |-> FALSE, raised |-> "none", paper |-> "",
           pass |-> ""]
NoHeader == [date |-> 0, days |-> 0, extended |-> FALSE, post |-> ""]

(* Lines 340-350 and 372-379: the header a renderer builds at instant now. *)
Header(now, days, how) ==
    LET w == now_window(now, days)
        actual_days == (w.end - w.start) \div Day
    IN  [date |-> DateOf(w.start), days |-> actual_days,
         extended |-> (actual_days # days /\ days = 1), post |-> how]

-----------------------------------------------------------------------------
(* Initial states. *)

StartOffsets ==
    {Noon, LastSecond, Day + Noon, 5 * Day + Noon, 6 * Day + LastSecond}

Configs ==
    [LIBRARY_TYPE : {"users", "groups"},
     WINDOW_DAYS : {1, 2}, SKIP_WEEKENDS : BOOLEAN,
     BIBLIO_TYPES : {DefaultBiblioTypes}, SLACK_WEBHOOK_URL : BOOLEAN]

DigestConfigs ==
    [LIBRARY_TYPE : {"users", "groups"},
     WINDOW_DAYS : {1}, SKIP_WEEKENDS : {TRUE},
     BIBLIO_TYPES : BiblioTypeSets, SLACK_WEBHOOK_URL : {FALSE}]

RunLibraries == {{}, {"P1", "N1", "AN1"}}
Libraries == {l \in SUBSET Keys : Cardinality(l) <= MaxLib}

FreshLocals ==
    /\ ticks = 0
    /\ loaded = 0
    /\ state = 0
    /\ window = [start |-> 0, end |-> 0, days |-> 0]
    /\ changed = <<>>
    /\ new_papers = <<>>
    /\ new_notes = <<>>
    /\ new_annots = <<>>
    /\ all_meaningful_notes = <<>>
    /\ all_meaningful_annotations = <<>>
    /\ parents = {}
    /\ found = {}
    /\ i = 1
    /\ last = NoCall
    /\ printed = NoHeader
    /\ slacked = NoHeader

Init ==
    /\ cfg \in Configs
    /\ lib \in RunLibraries
    /\ lmv \in Headers
    /\ clock \in {Week + o : o \in StartOffsets}
    /\ runs = 1
    /\ pc = "start"
    /\ net = {}
    /\ disk = <<>>
    /\ FreshLocals

(* digest() called on a Tuesday at noon or a second later, start-up done,  *)
(* no state file yet, any library of up to MaxLib items.                   *)
InitDigest ==
    /\ cfg \in DigestConfigs
    /\ lib \in Libraries
    /\ lmv = [present |-> TRUE, text |-> StrOf(MaxVersion)]
    /\ clock \in {RefNow, RefNow + 1}
    /\ runs = 1
    /\ pc = "digest"
    /\ net = {"keys/current"}
    /\ disk = <<>>
    /\ FreshLocals

-----------------------------------------------------------------------------
(* Actions. *)

env == <<cfg, lib>>
lists == <<new_papers, new_notes, new_annots, all_meaningful_notes,
           all_meaningful_annotations, parents, found>>
locals == <<loaded, state, window, changed, lists, i, last>>
output == <<printed, slacked>>

(* Lines 100-107: the identity lookup made when the module is loaded. *)
ModuleIdentity ==
    /\ pc = "start"
    /\ \E r \in Responses :
          pc' = IF r = "ok" THEN "resolve" ELSE "failed"
    /\ net' = net \cup {"keys/current"}
    /\ UNCHANGED <<env, lmv, clock, ticks, runs, disk, locals, output>>

(* Lines 31-98, called at line 109.  lib_id: whether LIBRARY_ID is set;    *)
(* same: it equals the userID; status: the answer to GET groups/<id>;      *)
(* pick: what the group listing and GROUP_NAME select.                     *)
resolve_library ==
    /\ pc = "resolve"
    /\ \E r \in Responses, lib_id \in BOOLEAN, same \in BOOLEAN,
          status \in {200, 403, 404, 500},
          pick \in {"err", "one", "rejected"} :
          IF r = "err"
          THEN /\ net' = net \cup {"keys/current"}
               /\ pc' = "failed"
          ELSE IF cfg.LIBRARY_TYPE = "groups" /\ lib_id /\ same
          THEN /\ net' = net \cup {"keys/current"}
               /\ pc' = "failed"
          ELSE IF lib_id /\ cfg.LIBRARY_TYPE = "groups"
          THEN /\ net' = net \cup {"keys/current", "groups/id"}
               /\ pc' = IF status = 200 THEN "main" ELSE "failed"
          ELSE IF lib_id \/ cfg.LIBRARY_TYPE = "users"
          THEN /\ net' = net \cup {"keys/current"}
               /\ pc' = "main"
          ELSE /\ net' = net \cup {"keys/current", "users/id/groups"}
               /\ pc' = IF pick = "one" THEN "main" ELSE "failed"
    /\ UNCHANGED <<env, lmv, clock, ticks, runs, disk, locals, output>>

(* Lines 428-434: the weekend skip. *)
MainSkipWeekend ==
    /\ pc = "main"
    /\ cfg.SKIP_WEEKENDS /\ weekday(clock) \in {5, 6}
    /\ pc' = "skipped"
    /\ UNCHANGED <<env, lmv, clock, ticks, runs, net, disk, locals, output>>

(* Lines 435-437: the run goes on to digest(days=WINDOW_DAYS). *)
MainRun ==
    /\ pc = "main"
    /\ ~(cfg.SKIP_WEEKENDS /\ weekday(clock) \in {5, 6})
    /\ pc' = "digest"
    /\ UNCHANGED <<env, lmv, clock, ticks, runs, net, disk, locals, output>>

(* Time passes.  Only the next datetime.now() can tell, so the clock moves *)
(* where one is about to be read.                                          *)
Tick ==
    /\ pc \in {"main", "digest", "print", "slack"}
    /\ ticks < MaxTicks
    /\ ticks' = ticks + 1
    /\ clock' = clock + TickSeconds
    /\ UNCHANGED <<env, lmv, runs, pc, net, disk, locals, output>>

(* Whether is_meaningful_item(k) reaches its first get_item call. *)
LooksUp(k) ==
    cfg.LIBRARY_TYPE = "groups" /\ created_by_id(k) # ""
    /\ Item(k).parentItem # ""

Called(res, k, pass) ==
    [key |-> k, verdict |-> res.verdict, raised |-> res.raised,
     paper |-> res.paper, pass |-> pass]

(* Lines 183-217 and 286, the fetch succeeding: load_state, now_window,    *)
(* get_items, the version update, the partition and new_papers.            *)
DigestFetch ==
    /\ pc = "digest"
    /\ loaded' = load_state
    /\ window' = now_window(clock, cfg.WINDOW_DAYS)
    /\ changed' = get_items
    /\ state' = UpdatedVersion(lmv, load_state)
    /\ new_papers' = NewPapers(get_items, now_window(clock, cfg.WINDOW_DAYS))
    /\ net' = net \cup {"items"}
    /\ i' = 1
    /\ pc' = "new_notes"
    /\ UNCHANGED <<env, lmv, clock, ticks, runs, disk, new_notes, new_annots,
                   all_meaningful_notes, all_meaningful_annotations, parents,
                   found, last, output>>

(* Variant: the state is written although the fetch failed. *)
DigestFetchFails_saving ==
    /\ pc = "digest"
    /\ loaded' = load_state
    /\ state' = load_state
    /\ window' = now_window(clock, cfg.WINDOW_DAYS)
    /\ net' = net \cup {"items"}
    /\ disk' = <<load_state>>
    /\ pc' = "failed"
    /\ UNCHANGED <<env, lmv, clock, ticks, runs, changed, lists, i,
                   last, output>>

(* Lines 183-192 and 441-443: get_items raises, __main__ reports the       *)
(* network error and raises it again.                                      *)
DigestFetchFails ==
    /\ pc = "digest"
    /\ loaded' = load_state
    /\ state' = load_state
    /\ window' = now_window(clock, cfg.WINDOW_DAYS)
    /\ net' = net \cup {"items"}
    /\ pc' = "failed"
    /\ UNCHANGED <<env, lmv, clock, ticks, runs, disk, changed, lists, i,
                   last, output>>

(* Line 288: one item of the comprehension that builds new_notes. *)
NewNotes ==
    /\ pc = "new_notes"
    /\ \/ /\ i <= Len(notes)
          /\ in_window(notes[i], window)
          /\ \E r1 \in Responses, r2 \in Responses :
                LET res == is_meaningful_item(notes[i], r1, r2)
                IN  /\ new_notes' = IF res.verdict
                                    THEN Append(new_notes, notes[i])
                                    ELSE new_notes
                    /\ last' = Called(res, notes[i], "new_notes")
          /\ net' = IF LooksUp(notes[i]) THEN net \cup {"items/key"} ELSE net
          /\ i' = i + 1
          /\ pc' = pc
       \/ /\ i <= Len(notes)
          /\ ~in_window(notes[i], window)
          /\ i' = i + 1
          /\ UNCHANGED <<pc, net, new_notes, last>>
       \/ /\ i > Len(notes)
          /\ i' = 1
          /\ pc' = "new_annots"
          /\ UNCHANGED <<net, new_notes, last>>
    /\ UNCHANGED <<env, lmv, clock, ticks, runs, disk, loaded, state, window,
                   changed, new_papers, new_annots, all_meaningful_notes,
                   all_meaningful_annotations, parents, found, output>>

(* Line 289: one item of the comprehension that builds new_annots. *)
NewAnnots ==
    /\ pc = "new_annots"
    /\ \/ /\ i <= Len(annotations)
          /\ in_window(annotations[i], window)
          /\ \E r1 \in Responses, r2 \in Responses :
                LET res == is_meaningful_item(annotations[i], r1, r2)
                IN  /\ new_annots' = IF res.verdict
                                     THEN Append(new_annots, annotations[i])
                                     ELSE new_annots
                    /\ last' = Called(res, annotations[i], "new_annots")
          /\ net' = IF LooksUp(annotations[i]) THEN net \cup {"items/key"}
                    ELSE net
          /\ i' = i + 1
          /\ pc' = pc
       \/ /\ i <= Len(annotations)
          /\ ~in_window(annotations[i], window)
          /\ i' = i + 1
          /\ UNCHANGED <<pc, net, new_annots, last>>
       \/ /\ i > Len(annotations)
          /\ i' = 1
          /\ pc' = "all_meaningful_notes"
          /\ UNCHANGED <<net, new_annots, last>>
    /\ UNCHANGED <<env, lmv, clock, ticks, runs, disk, loaded, state, window,
                   changed, new_papers, new_notes, all_meaningful_notes,
                   all_meaningful_annotations, parents, found, output>>

(* Line 318: one item of the comprehension that builds                     *)
(* all_meaningful_notes; no window test.                                   *)
AllMeaningfulNotes ==
    /\ pc = "all_meaningful_notes"
    /\ \/ /\ i <= Len(notes)
          /\ \E r1 \in Responses, r2 \in Responses :
                LET res == is_meaningful_item(notes[i], r1, r2)
                IN  /\ all_meaningful_notes' =
                          IF res.verdict
                          THEN Append(all_meaningful_notes, notes[i])
                          ELSE all_meaningful_notes
                    /\ last' = Called(res, notes[i], "all_meaningful_notes")
          /\ net' = IF LooksUp(notes[i]) THEN net \cup {"items/key"} ELSE net
          /\ i' = i + 1
          /\ pc' = pc
       \/ /\ i > Len(notes)
          /\ i' = 1
          /\ pc' = "all_meaningful_annotations"
          /\ UNCHANGED <<net, all_meaningful_notes, last>>
    /\ UNCHANGED <<env, lmv, clock, ticks, runs, disk, loaded, state, window,
                   changed, new_papers, new_notes, new_annots,
                   all_meaningful_annotations, parents, found, output>>

(* Line 319: one item of the comprehension that builds                     *)
(* all_meaningful_annotations.                                             *)
AllMeaningfulAnnotations ==
    /\ pc = "all_meaningful_annotations"
    /\ \/ /\ i <= Len(annotations)
          /\ \E r1 \in Responses, r2 \in Responses :
                LET res == is_meaningful_item(annotations[i], r1, r2)
                IN  /\ all_meaningful_annotations' =
                          IF res.verdict
                          THEN Append(all_meaningful_annotations, annotations[i])
                          ELSE all_meaningful_annotations
                    /\ last' = Called(res, annotations[i],
                                      "all_meaningful_annotations")
          /\ net' = IF LooksUp(annotations[i]) THEN net \cup {"items/key"}
                    ELSE net
          /\ i' = i + 1
          /\ pc' = pc
       \/ /\ i > Len(annotations)
          /\ i' = 1
          /\ pc' = "parents"
          /\ UNCHANGED <<net, all_meaningful_annotations, last>>
    /\ UNCHANGED <<env, lmv, clock, ticks, runs, disk, loaded, state, window,
                   changed, new_papers, new_notes, new_annots,
                   all_meaningful_notes, parents, found, output>>

(* Lines 321-337: one child of the loop that fills parents; after the      *)
(* last child digest returns the summary and the state.                    *)
Parents ==
    /\ pc = "parents"
    /\ LET children == all_meaningful_notes \o all_meaningful_annotations
       IN  \/ /\ i <= Len(children)
              /\ \E r1 \in Responses, r2 \in Responses :
                    LET res == paper_for_child(children[i], r1, r2)
                    IN  /\ parents' = add_parent(parents, res)
                        /\ found' = IF res.raised THEN found
                                    ELSE found \cup {children[i]}
              /\ net' = IF Item(children[i]).parentItem # ""
                        THEN net \cup {"items/key"} ELSE net
              /\ i' = i + 1
              /\ pc' = pc
           \/ /\ i > Len(children)
              /\ i' = 1
              /\ pc' = "print"
              /\ UNCHANGED <<net, parents, found>>
    /\ UNCHANGED <<env, lmv, clock, ticks, runs, disk, loaded, state, window,
                   changed, new_papers, new_notes, new_annots,
                   all_meaningful_notes, all_meaningful_annotations, last,
                   output>>

(* digest's return value. *)
summary ==
    [new_papers |-> new_papers, notes |-> new_notes, read_papers |-> parents]

-----------------------------------------------------------------------------
(* Lines 339-350: print_digest reads the clock again for its header. *)
print_digest ==
    /\ pc = "print"
    /\ printed' = Header(clock, cfg.WINDOW_DAYS, "stdout")
    /\ pc' = "slack"
    /\ UNCHANGED <<env, lmv, clock, ticks, runs, net, disk, locals, slacked>>

(* Lines 368-424: send_to_slack; a failed post is reported and swallowed. *)
send_to_slack ==
    /\ pc = "slack"
    /\ \/ /\ ~cfg.SLACK_WEBHOOK_URL
          /\ UNCHANGED <<slacked, net>>
       \/ /\ cfg.SLACK_WEBHOOK_URL
          /\ \E r \in Responses :
                slacked' = Header(clock, cfg.WINDOW_DAYS, r)
          /\ net' = net \cup {"webhook"}
    /\ pc' = "save"
    /\ UNCHANGED <<env, lmv, clock, ticks, runs, disk, locals, printed>>

(* Lines 149-151, called at line 440. *)
save_state ==
    /\ pc = "save"
    /\ disk' = <<state>>
    /\ pc' = "done"
    /\ UNCHANGED <<env, lmv, clock, ticks, runs, net, locals, output>>

(* The scheduler starts the program again, in a later week, against the    *)
(* same state file; the library's version may have changed.                *)
StartProcess ==
    /\ pc \in {"done", "failed", "skipped"}
    /\ runs < MaxRuns
    /\ runs' = runs + 1
    /\ clock' \in {(runs + 1) * Week + o : o \in StartOffsets}
    /\ lmv' \in Headers
    /\ pc' = "start"
    /\ net' = {}
    /\ ticks' = 0
    /\ loaded' = 0
    /\ state' = 0
    /\ window' = [start |-> 0, end |-> 0, days |-> 0]
    /\ changed' = <<>>
    /\ new_papers' = <<>>
    /\ new_notes' = <<>>
    /\ new_annots' = <<>>
    /\ all_meaningful_notes' = <<>>
    /\ all_meaningful_annotations' = <<>>
    /\ parents' = {}
    /\ found' = {}
    /\ i' = 1
    /\ last' = NoCall
    /\ printed' = NoHeader
    /\ slacked' = NoHeader
    /\ UNCHANGED <<env, disk>>

Digest ==
    \/ DigestFetch
    \/ DigestFetchFails
    \/ NewNotes
    \/ NewAnnots
    \/ AllMeaningfulNotes
    \/ AllMeaningfulAnnotations
    \/ Parents

Next ==
    \/ ModuleIdentity
    \/ resolve_library
    \/ MainSkipWeekend
    \/ MainRun
    \/ Tick
    \/ Digest
    \/ print_digest
    \/ send_to_slack
    \/ save_state
    \/ StartProcess

NextDigest == Digest

Spec == Init /\ [][Next]_vars
SpecDigest == InitDigest /\ [][NextDigest]_vars

-----------------------------------------------------------------------------
(* Properties.  The operators below restate what the specification says,   *)
(* from the items' data alone.                                             *)

Range(seq) == {seq[n] : n \in 1..Len(seq)}
NoDuplicates(seq) == Cardinality(Range(seq)) = Len(seq)
Fetched == pc \in {"new_notes", "new_annots", "all_meaningful_notes",
                   "all_meaningful_annotations", "parents", "print"}
DateIn(k, lo, hi) ==
    Item(k).dateOk /\ lo <= Item(k).dateAdded /\ Item(k).dateAdded <= hi
HasCreator(k) == Item(k).createdByUser # "missing"
ChildTypes == {"note", "annotation", "attachment"}

(* The Parent Resolver of the specification: the parent, or the parent of  *)
(* an attachment parent, "" for null.                                      *)
Ancestor(k) ==
    IF Item(k).parentItem = "" THEN ""
    ELSE IF Item(Item(k).parentItem).itemType = "attachment"
         THEN Item(Item(k).parentItem).parentItem
         ELSE Item(k).parentItem

Gap(k) == Item(k).dateAdded - Item(Ancestor(k)).dateAdded

(* C1: a run started on a Saturday or Sunday with the weekend skip on ends *)
(* without having made any network call.                                   *)
C1_WeekendSkipWithoutNetwork == pc = "skipped" => net = {}

C3_ReadPapersExact ==
    pc = "print" =>
        /\ found \subseteq
              Range(all_meaningful_notes) \cup Range(all_meaningful_annotations)
        /\ parents =
              {Ancestor(c) : c \in
                  {d \in found :
                      /\ Ancestor(d) # ""
                      /\ Item(Ancestor(d)).itemType \in cfg.BIBLIO_TYPES}}
        /\ \A p \in parents : Item(p).itemType \in cfg.BIBLIO_TYPES

(* Two meaningful children of one paper, one of them outside the window,   *)
(* give one entry.                                                         *)
C3_Witness ==
    /\ pc = "print"
    /\ cfg.LIBRARY_TYPE = "groups"
    /\ found = {"N4", "AN2"}
    /\ parents = {"P0"}
    /\ ~DateIn("AN2", window.start, window.end)

(* C4: in a groups library, for an item with a recorded creator whose      *)
(* bibliographic ancestor was resolved without error, is_meaningful_item   *)
(* returns true iff dateAdded - ancestor.dateAdded exceeds the threshold   *)
(* in minutes: false at 30 and at 60 seconds, true at 90.                  *)
C4_MeaningfulIffLaterThanThreshold ==
    ( /\ last.key # ""
      /\ cfg.LIBRARY_TYPE = "groups"
      /\ HasCreator(last.key)
      /\ last.raised = "none"
      /\ Ancestor(last.key) # ""
      /\ Item(Ancestor(last.key)).itemType \in cfg.BIBLIO_TYPES )
    => /\ last.verdict <=>
             Gap(last.key) > AUTO_ANNOTATION_THRESHOLD * SecondsPerMinute
       /\ Gap(last.key) \in {30, 60} => ~last.verdict
       /\ Gap(last.key) = 90 => last.verdict

(* The note added exactly 60 seconds after its paper is excluded. *)
C4_Witness ==
    /\ cfg.LIBRARY_TYPE = "groups"
    /\ last.key = "N3"
    /\ last.raised = "none"
    /\ last.paper = "P1"
    /\ Gap("N3") = 60
    /\ ~last.verdict

(* C5: in a groups library a lookup error in the meaningfulness check      *)
(* leaves the verdict to the creator alone (meaningful with one, not       *)
(* without), an item without creator is never meaningful, and the error    *)
(* does not abort the run.                                                 *)
C5_LookupErrorFailsOpen ==
    (last.key # "" /\ cfg.LIBRARY_TYPE = "groups") =>
        /\ last.raised = "lookup" =>
              /\ last.verdict <=> HasCreator(last.key)
              /\ pc # "failed"
        /\ ~HasCreator(last.key) => ~last.verdict

(* A note added 30 seconds after its paper is kept when the lookup fails. *)
C5_Witness ==
    /\ cfg.LIBRARY_TYPE = "groups"
    /\ last.key = "N2"
    /\ "P1" \in lib
    /\ last.raised = "lookup"
    /\ last.verdict

(* C6: when the main item fetch fails the run aborts and the state file    *)
(* stays as it was: no step of the aborted run writes it.                  *)
C6_FetchFailureKeepsState ==
    [][ /\ (pc = "digest" /\ pc' = "failed") => disk' = disk
        /\ pc = "failed" => (disk' = disk /\ pc' \in {"failed", "start"})
      ]_vars

(* A second run aborted by the fetch, with the first run's file on disk. *)
C6_Witness ==
    /\ pc = "failed"
    /\ "items" \in net
    /\ runs = 2
    /\ disk = <<MaxVersion>>

(* C7: in a groups library an item with a creator for which the Parent     *)
(* Resolver yields null (no parentItem, or an attachment parent without    *)
(* parent) is meaningful whatever the dates.                               *)
C7_NullAncestorIsMeaningful ==
    ( /\ last.key # ""
      /\ cfg.LIBRARY_TYPE = "groups"
      /\ HasCreator(last.key)
      /\ last.raised = "none"
      /\ Ancestor(last.key) = "" )
    => last.verdict

(* C8: the headers of print_digest and send_to_slack report the day count  *)
(* and the start date of the window digest used.                           *)
C8_HeadersAgreeWithWindow ==
    /\ printed.post # "" =>
          printed.days = window.days /\ printed.date = DateOf(window.start)
    /\ slacked.post # "" =>
          slacked.days = window.days /\ slacked.date = DateOf(window.start)

(* C9: the persisted last_version never decreases, and save_state writes   *)
(* the max of the value on disk at the start of the run and the version    *)
(* of the Last-Modified-Version header, or the former when the header is   *)
(* absent or no integer.                                                   *)
LastVersion(d) == IF d = <<>> THEN 0 ELSE d[1]
C9_LastVersionMonotone ==
    [][ /\ LastVersion(disk') >= LastVersion(disk)
        /\ (pc = "save" /\ pc' = "done") =>
              \/ \E v \in 0..MaxVersion :
                    /\ lmv = [present |-> TRUE, text |-> StrOf(v)]
                    /\ disk' = <<Max(LastVersion(disk), v)>>
              \/ /\ \A v \in 0..MaxVersion :
                       lmv # [present |-> TRUE, text |-> StrOf(v)]
                 /\ disk' = <<LastVersion(disk)>>
      ]_vars

(* A second run whose header is below the stored version keeps the         *)
(* stored one.                                                             *)
C9_Witness ==
    /\ pc = "done"
    /\ runs = 2
    /\ lmv = [present |-> TRUE, text |-> StrOf(0)]
    /\ loaded = MaxVersion
    /\ disk = <<MaxVersion>>

(* C10: every note of summary["notes"] is in the window and is one of the  *)
(* meaningful notes read_papers is built from.                             *)
C10_NotesAmongMeaningfulNotes ==
    pc = "print" =>
        \A k \in Range(summary.notes) :
            /\ DateIn(k, window.start, window.end)
            /\ k \in Range(all_meaningful_notes)

====
